---- MODULE Spec2Model ----
(***************************************************************************)
(* A model of precovery's PrecoveryDatabase (src/precovery/precovery_db.py)*)
(* : the windowed precovery search over an indexed store of observations,  *)
(* and the open/create life cycle of a store directory.                    *)
(*                                                                         *)
(* Quantisation.  The sky is a circle of sky cells (Positions); the index  *)
(* resolution groups two neighbouring cells into one healpixel.  Epochs    *)
(* (MJD) are integers; a window of window_size w spans centre -/+ w/2, so  *)
(* window sizes are even numbers of time units.                            *)
(***************************************************************************)
EXTENDS Integers, Sequences, FiniteSets, TLC

VARIABLES
    store,      \* the observations committed to the Frame Store / Frame Index
    call,       \* the last call on this store (precover, unless it names another
                \* operation in op): its arguments and outcome
    previous,   \* the outcome of the call before it, when made with the same arguments
    running,    \* __version__ of the running engine
    dir,        \* the store directory: existence, persisted config.json, indexed data
    opened,     \* the outcome of the last from_dir / create call
    created     \* the configuration written when the location was first created

vars == <<store, call, previous, running, dir, opened, created>>

(***************************************************************************)
(* Bounds and input sets                                                   *)
(***************************************************************************)
MaxObservations == 2

MaxVersion == 2

Obscodes == {"A", "B"}

Epochs == 0 .. 1

Positions == 0 .. 3

TimeOffsets == {0, 1}

Tolerances == {1}

WindowSizes == {2}

Drifts == {0, 1}

Radii == {0, 1, 2}

WindowMidpoints == {<<0>>, <<2>>, <<0, 2>>}

None == <<>>

Some(v) == <<v>>

StartEpochs == {None, Some(0), Some(1)}

EndEpochs == {None, Some(0), Some(1)}

(***************************************************************************)
(* Generic helpers                                                         *)
(***************************************************************************)
Abs(x) == IF x < 0 THEN -x ELSE x

Min(a, b) == IF a <= b THEN a ELSE b

Max(a, b) == IF a >= b THEN a ELSE b

SetMin(S) == CHOOSE x \in S : \A y \in S : x <= y

SetMax(S) == CHOOSE x \in S : \A y \in S : x >= y

RECURSIVE Concat(_)
Concat(ss) ==
    IF ss = <<>> THEN <<>> ELSE Head(ss) \o Concat(Tail(ss))

RECURSIVE AscendingSeq(_)
AscendingSeq(S) ==
    IF S = {} THEN <<>>
    ELSE LET m == SetMin(S) IN <<m>> \o AscendingSeq(S \ {m})

SelectIndices(s, Keep(_)) ==
    LET F[i \in 0 .. Len(s)] ==
            IF i = 0 THEN <<>>
            ELSE IF Keep(i) THEN Append(F[i - 1], s[i]) ELSE F[i - 1]
    IN  F[Len(s)]

(***************************************************************************)
(* Spatial primitives (precovery.spherical_geom, precovery.healpix_geom)   *)
(***************************************************************************)
NCells == Cardinality(Positions)

haversine_distance_deg(p1, p2) ==
    Min(Abs(p1 - p2), NCells - Abs(p1 - p2))

radec_to_healpixel(p) == p \div 2

CANDIDATE_healpixel(p) == p

(***************************************************************************)
(* Orbit / ephemeris collaborator (precovery.orbit).  N_BODY propagation   *)
(* is exact: it gives the orbit's true sky cell at an epoch, whatever the  *)
(* state it starts from.  TWO_BODY propagation is approximate: its error   *)
(* is the orbit's drift times the whole time units between the state's     *)
(* epoch and the target epoch.  A state's epoch is the rational num / den  *)
(* (the mean of a frame's observation epochs need not be whole).           *)
(***************************************************************************)
Orbits == [drift : Drifts, num : {0}, den : {1}]

TruePosition(obscode, mjd) == mjd % NCells

propagate(orbit, num, den) == [orbit EXCEPT !.num = num, !.den = den]

compute_ephemeris(orbit, obscode, mjd, method) ==
    LET elapsed == Abs(mjd * orbit.den - orbit.num) \div orbit.den
        error == IF method = "TWO_BODY" THEN orbit.drift * elapsed ELSE 0
    IN  [mjd |-> mjd, ra |-> (TruePosition(obscode, mjd) + error) % NCells]

(***************************************************************************)
(* Frame Store and Frame Index (precovery.frame_db).  A stored observation *)
(* is [obscode, exposure, dt, pos]: its exposure's observatory and         *)
(* midpoint, its own epoch exposure + dt, and its sky cell.  Ingestion     *)
(* files the observations of one exposure that fall in one healpixel       *)
(* under one frame.                                                        *)
(***************************************************************************)
StoredObservations ==
    [obscode : Obscodes, exposure : Epochs, dt : TimeOffsets, pos : Positions]

ObscodeOrder == <<"A", "B">>

ObservationId(o) ==
    1 + (IF o.obscode = "A" THEN 0 ELSE 1) + 2 * o.dt + 4 * o.exposure + 100 * o.pos

Observation(o) ==
    [id |-> ObservationId(o), mjd |-> o.exposure + o.dt, ra |-> o.pos]

HealpixFrame(o) ==
    [obscode |-> o.obscode, exposure_mjd_mid |-> o.exposure,
     healpixel |-> radec_to_healpixel(o.pos)]

Frames(db) == {HealpixFrame(o) : o \in db}

RECURSIVE DescendingById(_)
DescendingById(S) ==
    IF S = {} THEN <<>>
    ELSE LET o == CHOOSE x \in S : \A y \in S : ObservationId(x) >= ObservationId(y)
         IN  <<Observation(o)>> \o DescendingById(S \ {o})

iterate_observations(db, frame) ==
    DescendingById({o \in db : HealpixFrame(o) = frame})

mjd_bounds(db) ==
    IF Frames(db) = {} THEN [ok |-> FALSE, first |-> 0, last |-> 0]
    ELSE LET mjds == {f.exposure_mjd_mid : f \in Frames(db)}
         IN  [ok |-> TRUE, first |-> SetMin(mjds), last |-> SetMax(mjds)]

window_center(mjd, start_mjd, window_size) ==
    ((mjd - start_mjd + window_size \div 2) \div window_size) * window_size + start_mjd

window_centers(db, start_mjd, end_mjd, window_size) ==
    LET centers(obscode) ==
            {window_center(f.exposure_mjd_mid, start_mjd, window_size) :
                f \in {g \in Frames(db) : /\ g.obscode = obscode
                                          /\ g.exposure_mjd_mid >= start_mjd
                                          /\ g.exposure_mjd_mid <= end_mjd}}
        group(obscode) ==
            LET cs == AscendingSeq(centers(obscode))
            IN  [i \in 1 .. Len(cs) |-> <<cs[i], obscode>>]
    IN  Concat([i \in 1 .. Len(ObscodeOrder) |-> group(ObscodeOrder[i])])

propagation_targets(db, start_mjd, end_mjd, obscode) ==
    LET inRange == {f \in Frames(db) : /\ f.obscode = obscode
                                       /\ f.exposure_mjd_mid >= start_mjd
                                       /\ f.exposure_mjd_mid <= end_mjd}
        mjds == AscendingSeq({f.exposure_mjd_mid : f \in inRange})
    IN  [i \in 1 .. Len(mjds) |->
            [mjd |-> mjds[i],
             healpixels |-> {f.healpixel : f \in {g \in inRange :
                                                   g.exposure_mjd_mid = mjds[i]}}]]

get_frames(db, obscode, mjd, healpixel) ==
    LET f == [obscode |-> obscode, exposure_mjd_mid |-> mjd, healpixel |-> healpixel]
    IN  IF f \in Frames(db) THEN <<f>> ELSE <<>>

\* frames_covering: the frames of the observatory filed under the healpixel of
\* the position, of every epoch, oldest first.
get_frames_for_ra_dec(db, ra, obscode) ==
    LET covering == {f \in Frames(db) : /\ f.obscode = obscode
                                        /\ f.healpixel = radec_to_healpixel(ra)}
        mjds == AscendingSeq({f.exposure_mjd_mid : f \in covering})
    IN  [i \in 1 .. Len(mjds) |-> CHOOSE f \in covering : f.exposure_mjd_mid = mjds[i]]

(***************************************************************************)
(* Candidate model                                                         *)
(***************************************************************************)
\* 1 / ARCSEC: distances are recorded in arcseconds, tolerances given in degrees.
ArcsecPerDegree == 3600

\* frame is the frame the candidate was made from: what exposure_id, dataset_id
\* and the pixel the frame is filed under identify.
PrecoveryCandidate_from_observed_ephem(obs, frame, ephem) ==
    [kind |-> "PrecoveryCandidate",
     observation_id |-> obs.id,
     mjd |-> obs.mjd,
     ra_deg |-> obs.ra,
     exposure_mjd_mid |-> frame.exposure_mjd_mid,
     obscode |-> frame.obscode,
     frame |-> frame,
     healpix_id |-> CANDIDATE_healpixel(ephem.ra),
     pred_ra_deg |-> ephem.ra,
     distance_arcsec |-> haversine_distance_deg(obs.ra, ephem.ra) * ArcsecPerDegree]

FrameCandidate_from_frame(frame, ephem) ==
    [kind |-> "FrameCandidate",
     exposure_mjd_mid |-> frame.exposure_mjd_mid,
     obscode |-> frame.obscode,
     frame |-> frame,
     healpix_id |-> CANDIDATE_healpixel(ephem.ra),
     pred_ra_deg |-> ephem.ra]

\* A sort on the exposure midpoint alone, whatever the variant.
sort_key_exposure_only(c) == <<c.exposure_mjd_mid, 0>>

\* The key of sorted(): (c.mjd, c.observation_id) or (c.exposure_mjd_mid, "").
\* Observation identifiers are positive; 0 stands for the empty string.
sort_key(c) ==
    IF c.kind = "PrecoveryCandidate" THEN <<c.mjd, c.observation_id>>
    ELSE <<c.exposure_mjd_mid, 0>>

KeyLess(k1, k2) == k1[1] < k2[1] \/ (k1[1] = k2[1] /\ k1[2] < k2[2])

\* Python's sorted(): a stable sort.
RECURSIVE InsertStable(_, _)
InsertStable(sorted, c) ==
    IF sorted = <<>> THEN <<c>>
    ELSE IF KeyLess(sort_key(c), sort_key(Head(sorted)))
         THEN <<c>> \o sorted
         ELSE <<Head(sorted)>> \o InsertStable(Tail(sorted), c)

sort_candidates(candidates) ==
    LET F[i \in 0 .. Len(candidates)] ==
            IF i = 0 THEN <<>> ELSE InsertStable(F[i - 1], candidates[i])
    IN  F[Len(candidates)]

(***************************************************************************)
(* Precovery Engine                                                        *)
(***************************************************************************)
\* The tolerance test with equality accepted.
WithinToleranceInclusive(distance, tolerance) == distance <= tolerance

WithinTolerance(distance, tolerance) == distance < tolerance

RECURSIVE SumMjd(_)
SumMjd(observations) ==
    IF observations = <<>> THEN 0
    ELSE Head(observations).mjd + SumMjd(Tail(observations))

_find_matches_using_per_obs_timestamps(frame, orbit, observations, tolerance) ==
    LET mean_orbit_state == propagate(orbit, SumMjd(observations), Len(observations))
        ephemerides ==
            [i \in 1 .. Len(observations) |->
                compute_ephemeris(mean_orbit_state, frame.obscode,
                                  observations[i].mjd, "TWO_BODY")]
        distances ==
            [i \in 1 .. Len(observations) |->
                haversine_distance_deg(ephemerides[i].ra, observations[i].ra)]
        F[i \in 0 .. Len(observations)] ==
            IF i = 0 THEN <<>>
            ELSE IF WithinTolerance(distances[i], tolerance)
                 THEN Append(F[i - 1],
                        PrecoveryCandidate_from_observed_ephem(
                            observations[i], frame, ephemerides[i]))
                 ELSE F[i - 1]
    IN  F[Len(observations)]

_find_matches_in_frame(db, frame, orbit, ephem, tolerance) ==
    LET observations == iterate_observations(db, frame)
        F[i \in 0 .. Len(observations)] ==
            IF i = 0 THEN <<>>
            ELSE IF WithinTolerance(
                        haversine_distance_deg(ephem.ra, observations[i].ra), tolerance)
                 THEN Append(F[i - 1],
                        PrecoveryCandidate_from_observed_ephem(
                            observations[i], frame, ephem))
                 ELSE F[i - 1]
    IN  IF ~(\A i \in 1 .. Len(observations) : observations[i].mjd = ephem.mjd)
        THEN _find_matches_using_per_obs_timestamps(frame, orbit, observations, tolerance)
        ELSE F[Len(observations)]

\* The frame loop without its any_matches guard.
FrameResultUnguarded(db, frame, orbit, ephem, tolerance, include_frame_candidates) ==
    _find_matches_in_frame(db, frame, orbit, ephem, tolerance)
        \o (IF include_frame_candidates
            THEN <<FrameCandidate_from_frame(frame, ephem)>>
            ELSE <<>>)

\* The body of the loop over the frames of one (observatory, epoch, pixel).
FrameResult(db, frame, orbit, ephem, tolerance, include_frame_candidates) ==
    LET matches == _find_matches_in_frame(db, frame, orbit, ephem, tolerance)
        any_matches == matches # <<>>
    IN  matches \o (IF ~any_matches /\ include_frame_candidates
                     THEN <<FrameCandidate_from_frame(frame, ephem)>>
                     ELSE <<>>)

_check_frames(db, orbit, healpixels, obscode, mjds, tolerance, include_frame_candidates) ==
    LET all_ephems ==
            [i \in 1 .. Len(mjds) |-> compute_ephemeris(orbit, obscode, mjds[i], "N_BODY")]
        at(i) ==
            LET frames == get_frames(db, obscode, mjds[i], healpixels[i])
            IN  Concat([j \in 1 .. Len(frames) |->
                    FrameResult(db, frames[j], orbit, all_ephems[i], tolerance,
                                include_frame_candidates)])
    IN  Concat([i \in 1 .. Len(mjds) |-> at(i)])

\* A filter that lets every candidate epoch through.
OccupiedOrNot(approx_healpix, healpixels) == TRUE

\* The cheap filter: the TWO_BODY pixel is one with data at that epoch.
Occupied(approx_healpix, healpixels) == approx_healpix \in healpixels

\* One window of the loop of _check_windows: clip, find the candidate epochs,
\* filter them on the TWO_BODY pixel, inspect the frames of the survivors.
CheckWindow(db, window_midpoint, obscode, orbit, tolerance, start_mjd, end_mjd, window_size, include_frame_candidates) ==
    LET orbit_window == propagate(orbit, window_midpoint, 1)
        start_mjd_window == Max(window_midpoint - window_size \div 2, start_mjd)
        end_mjd_window == Min(window_midpoint + window_size \div 2, end_mjd)
        targets == propagation_targets(db, start_mjd_window, end_mjd_window, obscode)
        approx_healpixels ==
            [i \in 1 .. Len(targets) |->
                radec_to_healpixel(
                    compute_ephemeris(orbit_window, obscode, targets[i].mjd,
                                      "TWO_BODY").ra)]
        keep == SelectIndices([i \in 1 .. Len(targets) |-> i],
                    LAMBDA i : Occupied(approx_healpixels[i], targets[i].healpixels))
        keep_mjds == [k \in 1 .. Len(keep) |-> targets[keep[k]].mjd]
        keep_approx_healpixels == [k \in 1 .. Len(keep) |-> approx_healpixels[keep[k]]]
    IN  IF Len(keep_mjds) > 0
        THEN _check_frames(db, orbit_window, keep_approx_healpixels, obscode, keep_mjds,
                           tolerance, include_frame_candidates)
        ELSE <<>>

_check_windows(db, window_midpoints, obscode, orbit, tolerance, start_mjd, end_mjd, window_size, include_frame_candidates) ==
    Concat([i \in 1 .. Len(window_midpoints) |->
        CheckWindow(db, window_midpoints[i], obscode, orbit, tolerance, start_mjd,
                    end_mjd, window_size, include_frame_candidates)])

\* itertools.groupby(windows, key=obscode): maximal runs of consecutive pairs.
RECURSIVE groupby(_)
groupby(windows) ==
    IF windows = <<>> THEN <<>>
    ELSE LET obscode == windows[1][2]
             n == CHOOSE k \in 1 .. Len(windows) :
                    /\ \A i \in 1 .. k : windows[i][2] = obscode
                    /\ k = Len(windows) \/ windows[k + 1][2] # obscode
         IN  <<[obscode |-> obscode, mjds |-> [i \in 1 .. n |-> windows[i][1]]]>>
             \o groupby(SubSeq(windows, n + 1, Len(windows)))

Raised == [raised |-> TRUE, result |-> <<>>]

Returned(matches) == [raised |-> FALSE, result |-> matches]

precover(db, orbit, tolerance, start_mjd, end_mjd, window_size, include_frame_candidates) ==
    LET bounds == mjd_bounds(db)
        start == IF start_mjd = None THEN bounds.first ELSE start_mjd[1]
        end == IF end_mjd = None THEN bounds.last ELSE end_mjd[1]
        windows == window_centers(db, start, end, window_size)
        groups == groupby(windows)
        matches ==
            Concat([g \in 1 .. Len(groups) |->
                _check_windows(db, groups[g].mjds, groups[g].obscode, orbit, tolerance,
                               start, end, window_size, include_frame_candidates)])
    IN  IF (start_mjd = None \/ end_mjd = None) /\ ~bounds.ok
        THEN Raised
        ELSE Returned(IF Len(matches) > 0 THEN sort_candidates(matches) ELSE matches)

(***************************************************************************)
(* The calls a search makes on its collaborators, in the order the code    *)
(* makes them.  window is the midpoint of the window a call is made for    *)
(* (None for the calls made once per observatory or once per search);      *)
(* mjds are the epochs handed over, healpixels the pixel of a frame lookup.*)
(***************************************************************************)
Called(op, method, obscode, window, mjds, healpixels) ==
    [op |-> op, method |-> method, obscode |-> obscode, window |-> window,
     mjds |-> mjds, healpixels |-> healpixels]

NoPixel == {}

\* _find_matches_in_frame: the store read, and for per-observation
\* timestamps the propagation to the mean epoch and the batch of ephemerides.
_find_matches_in_frame_calls(db, frame, window) ==
    LET observations == iterate_observations(db, frame)
        mjds == [i \in 1 .. Len(observations) |-> observations[i].mjd]
    IN  <<Called("iterate_observations", "", frame.obscode, window,
                 <<frame.exposure_mjd_mid>>, {frame.healpixel})>>
        \o (IF ~(\A i \in 1 .. Len(observations) :
                    observations[i].mjd = frame.exposure_mjd_mid)
            THEN <<Called("propagate", "N_BODY", frame.obscode, window, mjds, NoPixel),
                   Called("compute_ephemeris", "TWO_BODY", frame.obscode, window, mjds,
                          NoPixel)>>
            ELSE <<>>)

_check_frames_calls(db, healpixels, obscode, mjds, window) ==
    LET at(i) ==
            LET frames == get_frames(db, obscode, mjds[i], healpixels[i])
            IN  <<Called("get_frames", "", obscode, window, <<mjds[i]>>,
                         {healpixels[i]})>>
                \o Concat([j \in 1 .. Len(frames) |->
                        _find_matches_in_frame_calls(db, frames[j], window)])
    IN  <<Called("compute_ephemeris", "N_BODY", obscode, window, mjds, NoPixel)>>
        \o Concat([i \in 1 .. Len(mjds) |-> at(i)])

CheckWindowCalls(db, window_midpoint, obscode, orbit, start_mjd, end_mjd, window_size) ==
    LET orbit_window == propagate(orbit, window_midpoint, 1)
        window == Some(window_midpoint)
        start_mjd_window == Max(window_midpoint - window_size \div 2, start_mjd)
        end_mjd_window == Min(window_midpoint + window_size \div 2, end_mjd)
        targets == propagation_targets(db, start_mjd_window, end_mjd_window, obscode)
        test_mjds == [i \in 1 .. Len(targets) |-> targets[i].mjd]
        approx_healpixels ==
            [i \in 1 .. Len(targets) |->
                radec_to_healpixel(
                    compute_ephemeris(orbit_window, obscode, targets[i].mjd,
                                      "TWO_BODY").ra)]
        keep == SelectIndices([i \in 1 .. Len(targets) |-> i],
                    LAMBDA i : Occupied(approx_healpixels[i], targets[i].healpixels))
        keep_mjds == [k \in 1 .. Len(keep) |-> targets[keep[k]].mjd]
        keep_approx_healpixels == [k \in 1 .. Len(keep) |-> approx_healpixels[keep[k]]]
    IN  <<Called("propagation_targets", "", obscode, window,
                 <<start_mjd_window, end_mjd_window>>, NoPixel),
          Called("compute_ephemeris", "TWO_BODY", obscode, window, test_mjds, NoPixel)>>
        \o (IF Len(keep_mjds) > 0
            THEN _check_frames_calls(db, keep_approx_healpixels, obscode, keep_mjds, window)
            ELSE <<>>)

_check_windows_calls(db, window_midpoints, obscode, orbit, start_mjd, end_mjd, window_size) ==
    <<Called("propagate", "N_BODY", obscode, None, window_midpoints, NoPixel),
      Called("compute_ephemeris", "N_BODY", obscode, None, window_midpoints, NoPixel)>>
    \o Concat([i \in 1 .. Len(window_midpoints) |->
            CheckWindowCalls(db, window_midpoints[i], obscode, orbit, start_mjd, end_mjd,
                             window_size)])

precover_calls(db, orbit, start_mjd, end_mjd, window_size) ==
    LET bounds == mjd_bounds(db)
        start == IF start_mjd = None THEN bounds.first ELSE start_mjd[1]
        end == IF end_mjd = None THEN bounds.last ELSE end_mjd[1]
        groups == groupby(window_centers(db, start, end, window_size))
    IN  IF start_mjd = None \/ end_mjd = None
        THEN <<Called("mjd_bounds", "", "", None, <<>>, NoPixel)>>
             \o (IF ~bounds.ok THEN <<>>
                 ELSE <<Called("window_centers", "", "", None, <<start, end>>, NoPixel)>>
                      \o Concat([g \in 1 .. Len(groups) |->
                            _check_windows_calls(db, groups[g].mjds, groups[g].obscode,
                                                 orbit, start, end, window_size)]))
        ELSE <<Called("window_centers", "", "", None, <<start, end>>, NoPixel)>>
             \o Concat([g \in 1 .. Len(groups) |->
                    _check_windows_calls(db, groups[g].mjds, groups[g].obscode, orbit,
                                         start, end, window_size)])

\* A handler that swallows the failure and returns what it has.
Masked(failed) == [raised |-> FALSE, result |-> <<>>, failed |-> failed]

\* An exception raised by a collaborator call leaves precover as it is: no
\* try statement stands between the call and the caller.
Surfaced(failed) == [raised |-> TRUE, result |-> <<>>, failed |-> failed]

\* precover when its fault-th collaborator call, of those it would make, fails
\* (none fails when fault is 0): the outcome, and the calls made up to then.
precover_under_fault(db, orbit, tolerance, start_mjd, end_mjd, window_size, include_frame_candidates, calls, fault) ==
    IF fault \in 1 .. Len(calls)
    THEN LET made == SubSeq(calls, 1, fault)
         IN  [outcome |-> Surfaced(made[fault]), calls |-> made]
    ELSE [outcome |-> precover(db, orbit, tolerance, start_mjd, end_mjd, window_size,
                               include_frame_candidates),
          calls |-> calls]

\* The candidates of each window of a search, in the order precover takes the
\* windows: observatory group by observatory group, window by window.
window_matches(db, orbit, tolerance, start_mjd, end_mjd, window_size, include_frame_candidates) ==
    LET groups == groupby(window_centers(db, start_mjd, end_mjd, window_size))
    IN  Concat([g \in 1 .. Len(groups) |->
            [i \in 1 .. Len(groups[g].mjds) |->
                CheckWindow(db, groups[g].mjds[i], groups[g].obscode, orbit, tolerance,
                            start_mjd, end_mjd, window_size, include_frame_candidates)]])

\* precover with the candidates of its windows merged (matches += ...) in the
\* given order before the final sort; the code merges them in order 1, 2, ...
precover_merged(db, orbit, tolerance, start_mjd, end_mjd, window_size, include_frame_candidates, order) ==
    LET bounds == mjd_bounds(db)
        start == IF start_mjd = None THEN bounds.first ELSE start_mjd[1]
        end == IF end_mjd = None THEN bounds.last ELSE end_mjd[1]
        per_window == window_matches(db, orbit, tolerance, start, end, window_size,
                                     include_frame_candidates)
        matches == Concat([k \in 1 .. Len(per_window) |-> per_window[order[k]]])
    IN  IF (start_mjd = None \/ end_mjd = None) /\ ~bounds.ok
        THEN Raised
        ELSE Returned(IF Len(matches) > 0 THEN sort_candidates(matches) ELSE matches)

\* The orders in which the windows of a search may be merged.
MergeOrders(db, start_mjd, end_mjd, window_size) ==
    LET bounds == mjd_bounds(db)
        start == IF start_mjd = None THEN bounds.first ELSE start_mjd[1]
        end == IF end_mjd = None THEN bounds.last ELSE end_mjd[1]
    IN  Permutations(1 .. Len(window_centers(db, start, end, window_size)))

find_observations_in_region(db, ra, obscode) ==
    LET frames == get_frames_for_ra_dec(db, ra, obscode)
    IN  Concat([i \in 1 .. Len(frames) |-> iterate_observations(db, frames[i])])

\* The radius test with equality rejected.
InRadiusExclusive(distance, tolerance) == distance < tolerance

InRadius(distance, tolerance) == distance <= tolerance

find_observations_in_radius(db, ra, tolerance, obscode) ==
    LET region == find_observations_in_region(db, ra, obscode)
    IN  SelectIndices(region,
            LAMBDA i : InRadius(haversine_distance_deg(region[i].ra, ra), tolerance))

(***************************************************************************)
(* The engine over an open store.  call holds the last precover call made  *)
(* on the store as it is; the handle keeps nothing of a call, so a caller  *)
(* who wants another query, or more ingestion, first drops the result      *)
(* (Discard).  Any interleaving of ingestion and precover calls is a       *)
(* behaviour, with Discard steps between.                                  *)
(***************************************************************************)
Arguments ==
    [orbit : Orbits, tolerance : Tolerances, start_mjd : StartEpochs, end_mjd : EndEpochs,
     window_size : WindowSizes, include_frame_candidates : BOOLEAN]

NoCall == [made |-> FALSE]

NoPrevious == [known |-> FALSE]

TypeOK ==
    /\ store \subseteq StoredObservations
    /\ call.made \in BOOLEAN
    /\ previous.known \in BOOLEAN

\* Ingestion (precovery.ingest) commits one more observation; committed
\* observations are never rewritten.  A result obtained before is out of date.
Ingest(o) ==
    /\ ~call.made
    /\ Cardinality(store) < MaxObservations
    /\ o \notin store
    /\ store' = store \cup {o}
    /\ UNCHANGED <<call, previous, running, dir, opened, created>>

\* A read that consumes an observation it has read.
StoreDrainedByPrecover(db) ==
    IF db = {} THEN db ELSE db \ {CHOOSE o \in db : TRUE}

\* What a precover call leaves of the store it read.
StoreAfterPrecover(db) == db

Precover(args) ==
    /\ ~call.made
    /\ IF args.start_mjd = None \/ args.end_mjd = None THEN TRUE
       ELSE args.start_mjd[1] <= args.end_mjd[1]
    /\ call' = [made |-> TRUE, args |-> args,
                outcome |-> precover(store, args.orbit, args.tolerance, args.start_mjd,
                                     args.end_mjd, args.window_size,
                                     args.include_frame_candidates)]
    /\ store' = StoreAfterPrecover(store)
    /\ UNCHANGED <<previous, running, dir, opened, created>>

\* The same call once more, on the store as the call before left it.
PrecoverAgain ==
    /\ call.made
    /\ ~previous.known
    /\ previous' = [known |-> TRUE, outcome |-> call.outcome]
    /\ call' = [call EXCEPT !.outcome =
                    precover(store, call.args.orbit, call.args.tolerance,
                             call.args.start_mjd, call.args.end_mjd,
                             call.args.window_size, call.args.include_frame_candidates)]
    /\ store' = StoreAfterPrecover(store)
    /\ UNCHANGED <<running, dir, opened, created>>

\* The caller drops the result; the handle stays open for other calls.
Discard ==
    /\ call.made
    /\ call' = NoCall
    /\ previous' = NoPrevious
    /\ UNCHANGED <<store, running, dir, opened, created>>

\* The point-region lookups, on the store as it is.
FindObservationsInRegion(ra, obscode) ==
    /\ ~call.made
    /\ call' = [made |-> TRUE, op |-> "find_observations_in_region",
                args |-> [ra |-> ra, obscode |-> obscode],
                outcome |-> Returned(find_observations_in_region(store, ra, obscode))]
    /\ UNCHANGED <<store, previous, running, dir, opened, created>>

FindObservationsInRadius(ra, tolerance, obscode) ==
    /\ ~call.made
    /\ call' = [made |-> TRUE, op |-> "find_observations_in_radius",
                args |-> [ra |-> ra, tolerance |-> tolerance, obscode |-> obscode],
                outcome |-> Returned(find_observations_in_radius(store, ra, tolerance,
                                                                 obscode))]
    /\ UNCHANGED <<store, previous, running, dir, opened, created>>

\* _check_windows called with window midpoints of the caller's choosing.
CheckWindows(window_midpoints, obscode, args) ==
    /\ ~call.made
    /\ args.start_mjd # None /\ args.end_mjd # None
    /\ args.start_mjd[1] <= args.end_mjd[1]
    /\ call' = [made |-> TRUE, op |-> "_check_windows",
                args |-> [window_midpoints |-> window_midpoints, obscode |-> obscode,
                          orbit |-> args.orbit, tolerance |-> args.tolerance,
                          start_mjd |-> args.start_mjd[1], end_mjd |-> args.end_mjd[1],
                          window_size |-> args.window_size,
                          include_frame_candidates |-> args.include_frame_candidates],
                outcome |-> Returned(
                    _check_windows(store, window_midpoints, obscode, args.orbit,
                                   args.tolerance, args.start_mjd[1], args.end_mjd[1],
                                   args.window_size, args.include_frame_candidates)),
                calls |-> _check_windows_calls(store, window_midpoints, obscode,
                                               args.orbit, args.start_mjd[1],
                                               args.end_mjd[1], args.window_size)]
    /\ UNCHANGED <<store, previous, running, dir, opened, created>>

\* The searches made while collaborators may fail.
FaultArguments ==
    {args \in Arguments : /\ args.include_frame_candidates
                          /\ args.start_mjd = None <=> args.end_mjd = None}

\* A precover call during which one of its collaborator calls fails, or none
\* (fault 0).
PrecoverUnderFault(args) ==
    /\ ~call.made
    /\ IF args.start_mjd = None \/ args.end_mjd = None THEN TRUE
       ELSE args.start_mjd[1] <= args.end_mjd[1]
    /\ call' \in
        LET calls == precover_calls(store, args.orbit, args.start_mjd, args.end_mjd,
                                    args.window_size)
            got(fault) == precover_under_fault(store, args.orbit, args.tolerance,
                                               args.start_mjd, args.end_mjd,
                                               args.window_size,
                                               args.include_frame_candidates, calls, fault)
        IN  {[made |-> TRUE, op |-> "precover", args |-> args, fault |-> fault,
              outcome |-> got(fault).outcome, calls |-> got(fault).calls] :
                fault \in 0 .. Len(calls)}
    /\ UNCHANGED <<store, previous, running, dir, opened, created>>

\* A precover call whose observatory groups and windows are worked on
\* independently and merged in some order.
PrecoverMerged(args) ==
    /\ ~call.made
    /\ IF args.start_mjd = None \/ args.end_mjd = None THEN TRUE
       ELSE args.start_mjd[1] <= args.end_mjd[1]
    /\ \E order \in MergeOrders(store, args.start_mjd, args.end_mjd, args.window_size) :
        call' = [made |-> TRUE, op |-> "precover", args |-> args, order |-> order,
                 outcome |-> precover_merged(store, args.orbit, args.tolerance,
                                             args.start_mjd, args.end_mjd,
                                             args.window_size,
                                             args.include_frame_candidates, order)]
    /\ UNCHANGED <<store, previous, running, dir, opened, created>>

(***************************************************************************)
(* Opening and creating a store directory.  config.json holds              *)
(* [nside, data_file_max_size, build_version] (precovery.config).          *)
(***************************************************************************)
Nsides == {32, 64}

FileSizes == {1000, 2000}

Config(nside, data_file_max_size, version) ==
    [nside |-> nside, data_file_max_size |-> data_file_max_size,
     build_version |-> version]

DefaultConfig(version) == Config(32, 1000, version)

NoDirectory == [exists |-> FALSE, config |-> None]

EmptyDirectory == [exists |-> TRUE, config |-> None]

\* Config.to_json(path): writes the file, replacing what was there.
to_json(d, config) == [exists |-> TRUE, config |-> Some(config)]

Failed(d) ==
    [dir |-> d, raised |-> TRUE, warned |-> FALSE, handle |-> None]

Handle(d, config, warned) ==
    [dir |-> d, raised |-> FALSE, warned |-> warned, handle |-> Some(config)]

create(d, version, nside, data_file_max_size) ==
    LET config == Config(nside, data_file_max_size, version)
    IN  Handle(to_json(d, config), config, FALSE)

\* No version comparison at all.
VersionNeverMismatches(config, version) == FALSE

VersionMismatch(config, version) == config.build_version # version

from_dir(d, version, create_flag, allow_version_mismatch) ==
    IF ~d.exists /\ create_flag
    THEN create(d, version, DefaultConfig(version).nside,
                DefaultConfig(version).data_file_max_size)
    ELSE IF d.config = None /\ ~create_flag
    THEN Failed(d)
    ELSE LET config == IF d.config = None THEN DefaultConfig(version) ELSE d.config[1]
             after == IF d.config = None THEN to_json(d, config) ELSE d
         IN  IF VersionMismatch(config, version)
             THEN IF ~allow_version_mismatch THEN Failed(after)
                  ELSE Handle(after, config, TRUE)
             ELSE Handle(after, config, FALSE)

NotOpened == [made |-> FALSE]

NotCreated == [known |-> FALSE]

\* The first configuration written at the location.
FirstWritten(before, after) ==
    IF ~created.known /\ before.config = None /\ after.config # None
    THEN [known |-> TRUE, config |-> after.config[1]]
    ELSE created

Create(nside, data_file_max_size) ==
    LET got == create(dir, running, nside, data_file_max_size)
    IN  /\ dir' = got.dir
        /\ opened' = [made |-> TRUE, op |-> "create", engine |-> running,
                      recorded |-> dir.config, allow |-> FALSE, got |-> got]
        /\ created' = FirstWritten(dir, got.dir)
        /\ UNCHANGED <<store, call, previous, running>>

FromDir(create_flag, allow_version_mismatch) ==
    LET got == from_dir(dir, running, create_flag, allow_version_mismatch)
    IN  /\ dir' = got.dir
        /\ opened' = [made |-> TRUE, op |-> "from_dir", engine |-> running,
                      recorded |-> dir.config, allow |-> allow_version_mismatch,
                      got |-> got]
        /\ created' = FirstWritten(dir, got.dir)
        /\ UNCHANGED <<store, call, previous, running>>

\* A newer build of the engine is installed.
Upgrade ==
    /\ running < MaxVersion
    /\ running' = running + 1
    /\ UNCHANGED <<store, call, previous, dir, opened, created>>

(***************************************************************************)
(* Specifications                                                          *)
(***************************************************************************)
\* The engine: a store created with the default configuration, filled by
\* ingestion and searched by precover.
Init ==
    /\ store = {}
    /\ call = NoCall
    /\ previous = NoPrevious
    /\ running = 1
    /\ dir = create(NoDirectory, 1, 32, 1000).dir
    /\ opened = NotOpened
    /\ created = [known |-> TRUE, config |-> DefaultConfig(1)]

Next ==
    \/ \E o \in StoredObservations : Ingest(o)
    \/ \E args \in Arguments : Precover(args)
    \/ PrecoverAgain
    \/ Discard

Spec == Init /\ [][Next]_vars

\* The life cycle of a location: absent or an empty directory at first.
InitOpen ==
    /\ store = {}
    /\ call = NoCall
    /\ previous = NoPrevious
    /\ running = 1
    /\ dir \in {NoDirectory, EmptyDirectory}
    /\ opened = NotOpened
    /\ created = NotCreated

NextOpen ==
    \/ \E nside \in Nsides, size \in FileSizes : Create(nside, size)
    \/ \E create_flag \in BOOLEAN, allow \in BOOLEAN : FromDir(create_flag, allow)
    \/ Upgrade

SpecOpen == InitOpen /\ [][NextOpen]_vars

\* The engine searched once per store: no call is repeated.
NextOnce ==
    \/ \E o \in StoredObservations : Ingest(o)
    \/ \E args \in Arguments : Precover(args)
    \/ Discard

SpecOnce == Init /\ [][NextOnce]_vars

\* The point-region lookups over a store filled by ingestion.
NextLookup ==
    \/ \E o \in StoredObservations : Ingest(o)
    \/ \E ra \in Positions, obscode \in Obscodes : FindObservationsInRegion(ra, obscode)
    \/ \E ra \in Positions, tolerance \in Radii, obscode \in Obscodes :
            FindObservationsInRadius(ra, tolerance, obscode)
    \/ Discard

SpecLookup == Init /\ [][NextLookup]_vars

\* The window loop on its own, over a store filled by ingestion.
NextWindows ==
    \/ \E o \in StoredObservations : Ingest(o)
    \/ \E window_midpoints \in WindowMidpoints, obscode \in Obscodes, args \in Arguments :
            CheckWindows(window_midpoints, obscode, args)
    \/ Discard

SpecWindows == Init /\ [][NextWindows]_vars

\* Searches over a store filled by ingestion, with failing collaborators.
NextFaults ==
    \/ \E o \in StoredObservations : Ingest(o)
    \/ \E args \in FaultArguments : PrecoverUnderFault(args)
    \/ Discard

SpecFaults == Init /\ [][NextFaults]_vars

\* Searches whose windows are merged in any order.
NextMerge ==
    \/ \E o \in StoredObservations : Ingest(o)
    \/ \E args \in Arguments : PrecoverMerged(args)
    \/ Discard

SpecMerge == Init /\ [][NextMerge]_vars

(***************************************************************************)
(* Properties                                                              *)
(***************************************************************************)
Returns == call.made /\ ~call.outcome.raised

Result == call.outcome.result

IsPrecoveryCandidate(c) == c.kind = "PrecoveryCandidate"

IsFrameCandidate(c) == c.kind = "FrameCandidate"

Count(seq, P(_)) == Cardinality({i \in 1 .. Len(seq) : P(seq[i])})

\* C1 (tolerance soundness): every PrecoveryCandidate a precover call returns
\* has its observed position strictly closer to its recorded predicted position
\* than the tolerance of the call; a separation equal to the tolerance is never
\* returned.
ToleranceSoundness ==
    Returns =>
        \A i \in 1 .. Len(Result) :
            IsPrecoveryCandidate(Result[i]) =>
                /\ haversine_distance_deg(Result[i].ra_deg, Result[i].pred_ra_deg)
                        < call.args.tolerance
                /\ Result[i].distance_arcsec < call.args.tolerance * ArcsecPerDegree

\* C1 witness: one call returns a candidate matched against the shared
\* ephemeris of its frame and a candidate matched at its own timestamp.
ToleranceWitness ==
    /\ Returns
    /\ \E i, j \in 1 .. Len(Result) :
        /\ IsPrecoveryCandidate(Result[i]) /\ IsPrecoveryCandidate(Result[j])
        /\ Result[i].mjd = Result[i].exposure_mjd_mid
        /\ Result[j].mjd # Result[j].exposure_mjd_mid

TimeKey(c) == IF IsPrecoveryCandidate(c) THEN c.mjd ELSE c.exposure_mjd_mid

TieBreak(c) == IF IsPrecoveryCandidate(c) THEN c.observation_id ELSE 0

\* C2 (ordering): the list precover returns is ascending by (time-key,
\* tie-break): the observation epoch and identifier of a PrecoveryCandidate, the
\* exposure midpoint and the empty identifier of a FrameCandidate.
ResultSorted ==
    Returns =>
        \A i, j \in 1 .. Len(Result) :
            i < j =>
                \/ TimeKey(Result[i]) < TimeKey(Result[j])
                \/ /\ TimeKey(Result[i]) = TimeKey(Result[j])
                   /\ TieBreak(Result[i]) <= TieBreak(Result[j])

\* C2 witness: a result mixing the two variants in which a candidate of
\* observatory B, whose group is searched last, comes first.
SortedWitness ==
    /\ Returns
    /\ Len(Result) = 2
    /\ Result[1].obscode = "B" /\ Result[2].obscode = "A"
    /\ IsFrameCandidate(Result[1]) # IsFrameCandidate(Result[2])

\* C3 (bounds respect), as claimed: with both bounds supplied, no returned
\* candidate has its epoch (observation epoch or exposure midpoint) outside
\* [start_epoch, end_epoch].
BoundsRespected ==
    (Returns /\ call.args.start_mjd # None /\ call.args.end_mjd # None) =>
        \A i \in 1 .. Len(Result) :
            /\ call.args.start_mjd[1] <= TimeKey(Result[i])
            /\ TimeKey(Result[i]) <= call.args.end_mjd[1]

Planted(db, orbit) ==
    \A o \in db : o.pos = TruePosition(o.obscode, o.exposure + o.dt)

\* C4 (completeness on planted data), as claimed: when every stored observation
\* lies exactly where the orbit is at its epoch, precover with that orbit, a
\* positive tolerance and default bounds returns exactly one PrecoveryCandidate
\* per stored observation.
PlantedAllFoundOnce ==
    (/\ Returns
     /\ store # {}
     /\ Planted(store, call.args.orbit)
     /\ call.args.tolerance > 0
     /\ call.args.start_mjd = None /\ call.args.end_mjd = None) =>
        \A o \in store :
            Count(Result, LAMBDA c : /\ IsPrecoveryCandidate(c)
                                     /\ c.observation_id = ObservationId(o)) = 1

\* C5 (empty store), as claimed: a precover call on a store with no frames
\* returns the empty list and does not raise, whichever bounds are supplied.
EmptyStoreReturnsEmpty ==
    (call.made /\ store = {}) =>
        /\ ~call.outcome.raised
        /\ call.outcome.result = <<>>

\* C6 (frame-candidate exclusivity): a FrameCandidate is returned only when
\* include_frame_candidates was set, and then no PrecoveryCandidate of the
\* same frame is returned.
FrameCandidateExclusive ==
    Returns =>
        \A i \in 1 .. Len(Result) :
            IsFrameCandidate(Result[i]) =>
                /\ call.args.include_frame_candidates
                /\ \A j \in 1 .. Len(Result) :
                    IsPrecoveryCandidate(Result[j]) => Result[j].frame # Result[i].frame

\* C6 witness: with the flag set, a frame with a matching observation and a
\* frame with only a near miss are both inspected.
ExclusiveWitness ==
    /\ Returns
    /\ call.args.include_frame_candidates
    /\ \E i, j \in 1 .. Len(Result) :
        IsFrameCandidate(Result[i]) /\ IsPrecoveryCandidate(Result[j])

\* The bounds a call searches: the supplied ones, else those of the index.
SearchStart == IF call.args.start_mjd = None THEN mjd_bounds(store).first
               ELSE call.args.start_mjd[1]

SearchEnd == IF call.args.end_mjd = None THEN mjd_bounds(store).last
             ELSE call.args.end_mjd[1]

\* The frame's key passes the cheap pixel filter of some window of the call.
SurvivesFilter(f) ==
    \E i \in 1 .. Len(window_centers(store, SearchStart, SearchEnd, call.args.window_size)) :
        LET w == window_centers(store, SearchStart, SearchEnd, call.args.window_size)[i]
            half == call.args.window_size \div 2
        IN  /\ w[2] = f.obscode
            /\ Max(w[1] - half, SearchStart) <= f.exposure_mjd_mid
            /\ f.exposure_mjd_mid <= Min(w[1] + half, SearchEnd)
            /\ radec_to_healpixel(
                   compute_ephemeris(propagate(call.args.orbit, w[1], 1), f.obscode,
                                     f.exposure_mjd_mid, "TWO_BODY").ra) = f.healpixel

NoObservationWithinTolerance(f) ==
    _find_matches_in_frame(store, f, call.args.orbit,
        compute_ephemeris(call.args.orbit, f.obscode, f.exposure_mjd_mid, "N_BODY"),
        call.args.tolerance) = <<>>

\* C7 (one FrameCandidate per near-miss frame), as claimed: with
\* include_frame_candidates set, every frame that passes the pixel filter and
\* holds no observation within tolerance gives exactly one FrameCandidate in
\* the whole result, also when its epoch lies in the range of two windows.
OneFrameCandidatePerFrame ==
    (Returns /\ call.args.include_frame_candidates) =>
        \A f \in Frames(store) :
            (SurvivesFilter(f) /\ NoObservationWithinTolerance(f)) =>
                Count(Result, LAMBDA c : IsFrameCandidate(c) /\ c.frame = f) = 1

\* A step in which a precover call returns or raises.
PrecoverStep ==
    /\ call'.made
    /\ ~call.made \/ (previous'.known /\ ~previous.known)

VersionChecked ==
    (opened.made /\ opened.op = "from_dir" /\ opened.recorded # None) =>
        IF opened.recorded[1].build_version # opened.engine
        THEN IF opened.allow
             THEN /\ ~opened.got.raised
                  /\ opened.got.handle # None
                  /\ opened.got.warned
             ELSE /\ opened.got.raised
                  /\ opened.got.handle = None
        ELSE /\ ~opened.got.raised
             /\ opened.got.handle # None
             /\ ~opened.got.warned

\* C9 witness: a store written by an older build is opened under the override.
VersionWitness ==
    /\ opened.made /\ opened.op = "from_dir" /\ opened.recorded # None
    /\ opened.recorded[1].build_version # opened.engine
    /\ opened.allow
    /\ opened.got.warned

\* C10 (persisted configuration is immutable), as claimed: after any create
\* and from_dir calls on a location, the persisted nside and capacity are
\* those written when it was first created, and a returned handle uses them.
ConfigImmutable ==
    created.known =>
        /\ dir.config # None
        /\ dir.config[1].nside = created.config.nside
        /\ dir.config[1].data_file_max_size = created.config.data_file_max_size
        /\ (opened.made /\ ~opened.got.raised) =>
                /\ opened.got.handle[1].nside = created.config.nside
                /\ opened.got.handle[1].data_file_max_size
                        = created.config.data_file_max_size

\* The identifiers a lookup yielded.
Yielded == {Result[i].id : i \in 1 .. Len(Result)}

\* The stored observations of the observatory filed under the healpixel of ra.
InPixelOf(ra, obscode) ==
    {o \in store : /\ o.obscode = obscode
                   /\ radec_to_healpixel(o.pos) = radec_to_healpixel(ra)}

\* C11 (point-region lookups): find_observations_in_region yields, once each,
\* exactly the stored observations of the observatory whose frame is filed
\* under the healpixel of the position, whatever their epoch;
\* find_observations_in_radius yields exactly those of them at a separation of
\* at most the radius (equality included), and so never an observation of a
\* neighbouring healpixel.
LookupExact ==
    /\ (call.made /\ call.op = "find_observations_in_region") =>
            /\ Yielded = {ObservationId(o) : o \in InPixelOf(call.args.ra, call.args.obscode)}
            /\ Len(Result) = Cardinality(Yielded)
    /\ (call.made /\ call.op = "find_observations_in_radius") =>
            /\ Yielded =
                 {ObservationId(o) :
                    o \in {x \in InPixelOf(call.args.ra, call.args.obscode) :
                             haversine_distance_deg(x.pos, call.args.ra)
                                <= call.args.tolerance}}
            /\ Len(Result) = Cardinality(Yielded)

\* C11 witness: a radius lookup yields an observation exactly at the radius
\* while another observation of the observatory, as close but filed under the
\* neighbouring healpixel, is stored and not yielded.
LookupWitness ==
    /\ call.made /\ call.op = "find_observations_in_radius"
    /\ call.args.tolerance > 0
    /\ \E o \in store :
        /\ ObservationId(o) \in Yielded
        /\ haversine_distance_deg(o.pos, call.args.ra) = call.args.tolerance
    /\ \E o \in store :
        /\ o.obscode = call.args.obscode
        /\ haversine_distance_deg(o.pos, call.args.ra) <= call.args.tolerance
        /\ radec_to_healpixel(o.pos) # radec_to_healpixel(call.args.ra)
        /\ ObservationId(o) \notin Yielded

\* The clipped range of the window of a _check_windows call holds no
\* candidate epoch.
EmptyWindow(window_midpoint) ==
    propagation_targets(store,
        Max(window_midpoint - call.args.window_size \div 2, call.args.start_mjd),
        Min(window_midpoint + call.args.window_size \div 2, call.args.end_mjd),
        call.args.obscode) = <<>>

\* The calls made for one window, after the batch of the observatory.
CallsFor(window_midpoint) ==
    SelectSeq(call.calls, LAMBDA c : c.window = Some(window_midpoint))

Calls ==
    precover_calls(store, call.args.orbit, call.args.start_mjd, call.args.end_mjd,
                   call.args.window_size)

\* The TWO_BODY pixel of the orbit at an epoch, from the state at a window's
\* midpoint.
PredictedPixel(window_midpoint, obscode, mjd) ==
    radec_to_healpixel(
        compute_ephemeris(propagate(call.args.orbit, window_midpoint, 1), obscode, mjd,
                          "TWO_BODY").ra)

\* The healpixels with data of the observatory at an epoch.
OccupiedPixels(obscode, mjd) ==
    {f.healpixel : f \in {g \in Frames(store) : /\ g.obscode = obscode
                                                /\ g.exposure_mjd_mid = mjd}}

\* A call made for an epoch past the cheap filter: the N_BODY re-check, the
\* frame lookup, the store read.
PastFilter(c) ==
    /\ c.window # None
    /\ \/ c.op = "compute_ephemeris" /\ c.method = "N_BODY"
       \/ c.op \in {"get_frames", "iterate_observations"}

\* No exposure of the store, in any window of the call that spans it, lies in
\* the pixel predicted for its epoch.
NeverOccupied ==
    LET start == SearchStart
        end == SearchEnd
        half == call.args.window_size \div 2
        windows == window_centers(store, start, end, call.args.window_size)
    IN  \A i \in 1 .. Len(windows) :
            \A f \in Frames(store) :
                (/\ f.obscode = windows[i][2]
                 /\ Max(windows[i][1] - half, start) <= f.exposure_mjd_mid
                 /\ f.exposure_mjd_mid <= Min(windows[i][1] + half, end)) =>
                    PredictedPixel(windows[i][1], f.obscode, f.exposure_mjd_mid)
                        # f.healpixel

====
